---- MODULE Spec2Model ----
(***************************************************************************)
(* Model of viz1.ts: the Canvas input state, the Viz frame loop, the drag  *)
(* sessions (PositionDrag, NormalDrag), the 2D hit tests, the camera orbit *)
(* and the sliders of the 3D demos, and clipToPlane.                       *)
(*                                                                         *)
(* Numbers.  The program computes in floating point; the model computes    *)
(* exactly.  A world-space point is a pair of integers in units of 1/Unit  *)
(* (Unit = 100, so 0.02 is 2 and 0.4 is 40).  A vector produced by         *)
(* vec2.normalize or by a rotation is irrational in general and is kept    *)
(* as a record [n |-> <<x, y>>, d |-> D] standing for (x, y) / sqrt(D),    *)
(* always in lowest terms (Reduce).  Comparisons against such values are   *)
(* decided by squaring (SignSqrt).  Rounding error is outside the model.   *)
(***************************************************************************)
EXTENDS Integers, Sequences, FiniteSets, TLC

VARIABLES
    mouse,        \* Canvas.mouse: canvas pixel <<x, y>>
    mouseLast,    \* Canvas.mouseLast: Canvas.mouse at the end of the last frame
    mouseDelta,   \* Canvas.mouseDelta: mouse - mouseLast at the last pointer event
    mouseButton,  \* Canvas.mouseButton: MouseEvent.buttons bit mask
    mouseWheel,   \* Canvas.mouseWheel: deltaY of the last wheel event
    keysDown,     \* Canvas.keysDown: Map key -> boolean (absent = not pressed)
    canvasSize,   \* <<canvas.width, canvas.height>>
    viewport2D,   \* Viz.viewport2D: <<width, height, offsetX, offsetY>>
    heap,         \* the vec2 objects the state and the session refer to: id -> value
    state,        \* Viz.state (its vec2 fields hold object ids)
    drag,         \* Viz.drag: NULL or a session record
    sliderDragLabel, \* Viz.sliderDragLabel: NULL or the label of a slider
    frameLog,     \* observer: what the frame just run did (NoFrame after an input event)
    press,        \* observer: where the buttons went from 0 to non-zero
    grab,         \* observer: the constructor arguments of a session under test
    clipA,        \* clipPositionA after clipToPlane
    clipB,        \* clipPositionB after clipToPlane
    clipIn,       \* the two clip positions and the plane clipToPlane was given
    lineIsVisible,\* the result of clipToPlane
    canvasLines   \* the canvas.drawLine calls the last drawLine3D made

vars == <<mouse, mouseLast, mouseDelta, mouseButton, mouseWheel, keysDown, canvasSize, viewport2D,
          heap, state, drag, sliderDragLabel, frameLog, press, grab,
          clipA, clipB, clipIn, lineIsVisible, canvasLines>>

inputVars == <<mouse, mouseLast, mouseDelta, mouseButton, mouseWheel, keysDown, canvasSize>>
vizVars == <<viewport2D, heap, state, drag, sliderDragLabel, frameLog, press, grab>>
clipVars == <<clipA, clipB, clipIn, lineIsVisible, canvasLines>>

-----------------------------------------------------------------------------
(* Exact arithmetic *)

\* World units per 1.0.
Unit == 100

Abs(x) == IF x < 0 THEN -x ELSE x
Min(a, b) == IF a < b THEN a ELSE b
Max(a, b) == IF a > b THEN a ELSE b
Sign(x) == IF x > 0 THEN 1 ELSE IF x < 0 THEN -1 ELSE 0

RECURSIVE GCD(_, _)
GCD(a, b) == IF b = 0 THEN a ELSE GCD(b, a % b)

\* A rational N / D in lowest terms, D > 0, as [n |-> N, d |-> D].
Rat(n, d) ==
    LET g == GCD(Abs(n), Abs(d))
    IN  [n |-> (Sign(d) * n) \div g, d |-> Abs(d) \div g]
RInt(k) == [n |-> k, d |-> 1]
RAdd(a, b) == Rat(a.n * b.d + b.n * a.d, a.d * b.d)
RSub(a, b) == Rat(a.n * b.d - b.n * a.d, a.d * b.d)
RMul(a, b) == Rat(a.n * b.n, a.d * b.d)
RDiv(a, b) == Rat(a.n * b.d, a.d * b.n)
RNeg(a) == [n |-> -a.n, d |-> a.d]
RLess(a, b) == a.n * b.d < b.n * a.d
RMin(a, b) == IF RLess(a, b) THEN a ELSE b
RMax(a, b) == IF RLess(b, a) THEN a ELSE b
RHalf == [n |-> 1, d |-> 2]

\* vec2.sub, vec2.add, vec2.dot, vec2.squaredLength on integer pairs.
Sub(a, b) == <<a[1] - b[1], a[2] - b[2]>>
Add(a, b) == <<a[1] + b[1], a[2] + b[2]>>
Dot2(a, b) == a[1] * b[1] + a[2] * b[2]
Cross2(a, b) == a[1] * b[2] - a[2] * b[1]
SqLen(a) == Dot2(a, a)

\* The sign of k * sqrt(d) - r, for integers k, r and d >= 0.
\* r * r is not formed: a is compared with r * r through the quotient a \div r.
SignSqrt(k, d, r) ==
    LET a == k * k * d
        m == Abs(r)
        cmp == IF m = 0 THEN Sign(a)           \* the sign of a - m * m
               ELSE IF a \div m > m THEN 1
               ELSE IF a \div m < m THEN -1
               ELSE Sign(a % m)
    IN  IF k >= 0
        THEN IF r < 0 THEN 1 ELSE cmp
        ELSE IF r >= 0 THEN -1 ELSE -cmp

\* (x, y) / sqrt(d) in lowest terms: the largest g with g | x, g | y, g*g | d
\* is divided out; the zero vector is <<0, 0>> / sqrt(1).
Reduce(n, d) ==
    LET G == GCD(Abs(n[1]), Abs(n[2]))
    IN  IF G = 0 THEN [n |-> <<0, 0>>, d |-> 1]
        ELSE LET gs == {k \in 1..G : G % k = 0 /\ d % (k * k) = 0}
                 g == CHOOSE k \in gs : \A j \in gs : j <= k
             IN  [n |-> <<n[1] \div g, n[2] \div g>>, d |-> d \div (g * g)]

ZeroVec == [n |-> <<0, 0>>, d |-> 1]

\* vec2.normalize of an integer pair: v / |v|, and (0, 0) when |v| = 0.
normalize(v) == IF SqLen(v) > 0 THEN Reduce(v, SqLen(v)) ELSE ZeroVec

\* vec2.normalize of a value (x, y) / sqrt(d): the scale sqrt(d) cancels.
normalizeVec(u) == normalize(u.n)

\* |a|^2 = |b|^2 for two values n / sqrt(d).
SameLength(a, b) == SqLen(a.n) * b.d = SqLen(b.n) * a.d
IsUnit(a) == SqLen(a.n) = a.d

\* perpL(v) = (-v[1], v[0]).
perpL(u) == [n |-> <<-u.n[2], u.n[1]>>, d |-> u.d]

-----------------------------------------------------------------------------
(* Drag sessions *)

NULL == [kind |-> "null"]

\* new PositionDrag(out, dragStart, mouseButtons): offset = out - dragStart.
NewPositionDrag(h, out, dragStart, mouseButtons) ==
    [kind |-> "PositionDrag", out |-> out,
     offset |-> Sub(h[out], dragStart), mouseButtons |-> mouseButtons]

\* new NormalDrag(out, origin, dragStart, mouseButtons): copies out, origin, dragStart.
NewNormalDrag_MaskResampled(h, out, origin, dragStart, mouseButtons) ==
    [kind |-> "NormalDrag", out |-> out, origin |-> origin,
     dragStart |-> dragStart, normalStart |-> h[out],
     mouseButtons |-> 3 - mouseButtons]
NewNormalDrag(h, out, origin, dragStart, mouseButtons) ==
    [kind |-> "NormalDrag", out |-> out, origin |-> origin,
     dragStart |-> dragStart, normalStart |-> h[out],
     mouseButtons |-> mouseButtons]

\* The return value of both update methods: this.mouseButtons !== mouseButtons.
ReleaseRequested_Always(s, mouseButtons) == TRUE
ReleaseRequested(s, mouseButtons) == s.mouseButtons # mouseButtons

\* PositionDrag.update writes mouse + offset to this.out.
PositionDragOut_Accumulate(s, h, mouseWorld) == Add(h[s.out], Add(mouseWorld, s.offset))
PositionDragOut(s, h, mouseWorld) == Add(mouseWorld, s.offset)

\* The rotation NormalDrag.update applies: from a start value ns and the two
\* normalized directions, out = (ns.x cos - ns.y sin, ns.x sin + ns.y cos).
Rotate(ns, toDragStart, toMouse) ==
    LET sinN == Cross2(toDragStart.n, toMouse.n)
        cosN == Dot2(toDragStart.n, toMouse.n)
        den == toDragStart.d * toMouse.d    \* sin = sinN / sqrt(den), cos alike
    IN  Reduce(<<ns.n[1] * cosN - ns.n[2] * sinN,
                 ns.n[1] * sinN + ns.n[2] * cosN>>, ns.d * den)

\* NormalDrag.update writes normalStart rotated by the angle from
\* (dragStart - origin) to (mouse - origin) to this.out.
NormalDragOut_FromCurrent(s, h, mouseWorld) ==
    Rotate(h[s.out], normalize(Sub(s.dragStart, s.origin)),
           normalize(Sub(mouseWorld, s.origin)))
NormalDragOut(s, h, mouseWorld) ==
    Rotate(s.normalStart, normalize(Sub(s.dragStart, s.origin)),
           normalize(Sub(mouseWorld, s.origin)))

\* drag.update(mouse, mouseButtons): the heap after the write, and the result.
DragUpdate(s, h, mouseWorld, mouseButtons) ==
    [heap |-> [h EXCEPT ![s.out] =
                  IF s.kind = "PositionDrag"
                  THEN PositionDragOut(s, h, mouseWorld)
                  ELSE NormalDragOut(s, h, mouseWorld)],
     released |-> ReleaseRequested(s, mouseButtons)]

-----------------------------------------------------------------------------
(* Scene state *)

Demos == <<"DotProduct", "DotProductNormal", "SurfaceNormal", "CameraFrustum",
           "CameraFrustumProjectionMatrix", "PointLight", "PointLightPixel">>

Is3D(demo) == demo \in {"CameraFrustum", "CameraFrustumProjectionMatrix"}

\* Viz.stateDefault, its vec2 fields as plain values (lightPos in world units).
\* The camera latitude and longitude are counted in steps of 0.005 rad from
\* their default angles: the camera orbit adds mouseDelta * 0.005.  The four
\* slider values are rationals.
stateDefault ==
    [demo |-> "DotProduct",
     surfaceNormal |-> <<1, 1>>,
     lightDir |-> <<-1, 0>>,
     lightPos |-> <<(3 * Unit) \div 4, (3 * Unit) \div 4>>,
     lightRayNum |-> 10,
     cameraLatitude3D |-> 0,
     cameraLongitude3D |-> 0,
     cameraDistance3D |-> -100,
     frustumFovy |-> Rat(3600, 45),
     frustumAspect |-> Rat(16, 9),
     frustumFar |-> RInt(15),
     frustumCubeLerp |-> RInt(0)]

\* Three object ids not in use: vec2.normalize(vec2.create(), ..) and
\* vec2.clone allocate new objects.
FreshIds(used) ==
    LET free == (1..(Cardinality(used) + 3)) \ used
        a == CHOOSE i \in free : \A j \in free : i <= j
        b == CHOOSE i \in free \ {a} : \A j \in free \ {a} : i <= j
        c == CHOOSE i \in free \ {a, b} : \A j \in free \ {a, b} : i <= j
    IN  <<a, b, c>>

\* loadState on a state whose vec2 fields are plain values: the two directions
\* are normalized into new objects, lightPos is cloned.  live are the ids of
\* objects still referred to (the session's out).
loadState(plain, h, live) ==
    LET ids == FreshIds(live)
    IN  [state |-> [plain EXCEPT !.surfaceNormal = ids[1],
                                 !.lightDir = ids[2],
                                 !.lightPos = ids[3]],
         heap |-> [i \in live \cup {ids[1], ids[2], ids[3]} |->
                     IF i = ids[1] THEN normalize(plain.surfaceNormal)
                     ELSE IF i = ids[2] THEN normalize(plain.lightDir)
                     ELSE IF i = ids[3] THEN plain.lightPos
                     ELSE h[i]]]

\* resetStateToDefault: state = {...stateDefault}; saveState(); loadState().
\* The JSON round trip gives stateDefault's values back; Viz.drag is not touched.
resetStateToDefault(h, d) ==
    loadState(stateDefault, h, IF d = NULL THEN {} ELSE {d.out})

\* The vector the scene draws and hit-tests for a field of the state.
SurfaceNormalOf(st, h) == h[st.surfaceNormal]
LightDirOf(st, h) == h[st.lightDir]
LightPosOf(st, h) == h[st.lightPos]

-----------------------------------------------------------------------------
(* 2D transform and hit tests *)

\* beginFrame2D: the centred square of side min(width, height).  The canvas
\* sizes of the frame model have sides of the same parity, so that the offsets
\* are whole pixels.
beginFrame2D_AtConstruction(size) == <<200, 200, 0, 0>>
beginFrame2D(size) ==
    LET r == Min(size[1], size[2])
        rx == Max((size[1] - r) \div 2, 0)
        ry == Max((size[2] - r) \div 2, 0)
    IN  <<r, r, rx, ry>>

\* transformCanvasToWorld2D, in world units.
transformCanvasToWorld2D(vp, v) ==
    <<((v[1] - vp[3]) * 2 * Unit) \div vp[1] - Unit,
      -(((v[2] - vp[4]) * 2 * Unit) \div vp[2] - Unit)>>

\* transformWorld2DToCanvas, from world units.
transformWorld2DToCanvas(vp, v) ==
    <<((v[1] + Unit) * vp[1]) \div (2 * Unit) + vp[3],
      ((Unit - v[2]) * vp[2]) \div (2 * Unit) + vp[4]>>

\* The same on rationals, for any canvas size and any point.
\* beginFrame2D for a canvas of size[1] x size[2] pixels.
beginFrame2DQ(size) ==
    LET r == RMin(RInt(size[1]), RInt(size[2]))
        rx == RMax(RDiv(RSub(RInt(size[1]), r), RInt(2)), RInt(0))
        ry == RMax(RDiv(RSub(RInt(size[2]), r), RInt(2)), RInt(0))
    IN  <<r, r, rx, ry>>

\* transformWorld2DToCanvas: x = (v[0] * 0.5 + 0.5) * viewport2D[0] + viewport2D[2],
\* y = (-v[1] * 0.5 + 0.5) * viewport2D[1] + viewport2D[3].
transformWorld2DToCanvasQ(vp, v) ==
    <<RAdd(RMul(RAdd(RMul(v[1], RHalf), RHalf), vp[1]), vp[3]),
      RAdd(RMul(RAdd(RMul(RNeg(v[2]), RHalf), RHalf), vp[2]), vp[4])>>

\* 0.4: surfaceSize and the radius outside which the light direction is grabbed.
surfaceSize == 40
\* 0.02: the hit distance of the surface, the arrow and the light position.
hitDistance == 2
\* 40 / viewport2D[0]: what the normal arrow is shortened by.
arrowInset(vp) == (40 * Unit) \div vp[1]

\* lineDistance(a0, a1, p) < thr for a0 = c0 * u, a1 = c1 * u  (u = n / sqrt(d)).
\* With k = n . p and N = |n|^2: the projection of p on the line is at
\* s = k sqrt(d) / N along u; saturate clamps it to the segment; a segment of
\* zero length gives 0 / 0 = NaN, and NaN < thr is false.
lineDistanceLess(c0, c1, u, p, thr) ==
    LET N == SqLen(u.n)
        k == Dot2(u.n, p)
        rest == SqLen(p) - thr * thr
        sgn0 == SignSqrt(k, u.d, c0 * N)    \* sign of s - c0
        sgn1 == SignSqrt(k, u.d, c1 * N)    \* sign of s - c1
        atStart == IF c1 > c0 THEN sgn0 <= 0 ELSE sgn0 >= 0   \* t = 0
        atEnd == IF c1 > c0 THEN sgn1 >= 0 ELSE sgn1 <= 0     \* t = 1
        near(c) == SignSqrt(2 * c * k, u.d, rest * u.d + c * c * N) > 0
    IN  IF N = 0 \/ c0 = c1 THEN FALSE
        ELSE IF atStart THEN near(c0)
        ELSE IF atEnd THEN near(c1)
        ELSE rest * N < k * k

showSurfaceNormal(st) == st.demo \in {"DotProductNormal", "SurfaceNormal", "PointLightPixel"}
showLightRayDir(st) == st.demo \in {"DotProduct", "DotProductNormal"}
showLightRayPos(st) == st.demo \in {"PointLight", "PointLightPixel"}

\* overSurface: the pointer is on the surface segment or on the normal arrow.
overSurface(st, h, vp, mouseWorld) ==
    \/ lineDistanceLess(surfaceSize, -surfaceSize, perpL(SurfaceNormalOf(st, h)),
                        mouseWorld, hitDistance)
    \/ /\ showSurfaceNormal(st)
       /\ lineDistanceLess(0, surfaceSize - arrowInset(vp), SurfaceNormalOf(st, h),
                           mouseWorld, hitDistance)

\* vec2.distance(mouseWorld, lightDirOrigin) >= 0.4
overLightDir(st, mouseWorld) ==
    showLightRayDir(st) /\ SqLen(mouseWorld) >= surfaceSize * surfaceSize

\* vec2.distance(mouseWorld, this.state.lightPos) < 0.02
overLightPos(st, h, mouseWorld) ==
    /\ showLightRayPos(st)
    /\ SqLen(Sub(mouseWorld, LightPosOf(st, h))) < hitDistance * hitDistance

\* The handles of the current demo the pointer is over.
OverHandles(st, h, vp, mouseWorld) ==
    {x \in {"surface"} : overSurface(st, h, vp, mouseWorld)}
    \cup {x \in {"lightDir"} : overLightDir(st, mouseWorld)}
    \cup {x \in {"lightPos"} : overLightPos(st, h, mouseWorld)}

\* The three places of update2D that construct a session: the condition under
\* which each does, given the session d that is active when it is reached.
SurfaceGrab(d, st, h, vp, mouseWorld, buttons) ==
    d = NULL /\ overSurface(st, h, vp, mouseWorld) /\ buttons # 0

LightDirGrab_NoButtonTest(d, st, h, vp, mouseWorld, buttons) ==
    d = NULL /\ overLightDir(st, mouseWorld)
LightDirGrab_NoNullTest(d, st, h, vp, mouseWorld, buttons) ==
    overLightDir(st, mouseWorld) /\ buttons # 0
LightDirGrab(d, st, h, vp, mouseWorld, buttons) ==
    d = NULL /\ overLightDir(st, mouseWorld) /\ buttons # 0

LightPosGrab_Never(d, st, h, vp, mouseWorld, buttons) == FALSE
LightPosGrab(d, st, h, vp, mouseWorld, buttons) ==
    d = NULL /\ overLightPos(st, h, mouseWorld) /\ buttons # 0

-----------------------------------------------------------------------------
(* Frames *)

DigitKeys == <<"Digit1", "Digit2", "Digit3", "Digit4", "Digit5", "Digit6", "Digit7">>

\* Canvas.isKeyDownEventTriggered: !!keysDown.get(key)
isKeyDownEventTriggered(keys, key) == key \in DOMAIN keys /\ keys[key]

\* The demo-switch loop of Viz.update: setDemo(i) for every triggered Digit(i+1),
\* in increasing order, so the last triggered one is the demo set.
setDemo(demo, keys) ==
    LET trig == {i \in 1..Len(Demos) : isKeyDownEventTriggered(keys, DigitKeys[i])}
    IN  IF trig = {} THEN demo
        ELSE Demos[CHOOSE i \in trig : \A j \in trig : j <= i]

NoFrame ==
    [kind |-> "none", mouseWorld |-> <<0, 0>>, buttons |-> 0, before |-> NULL,
     released |-> FALSE, out |-> ZeroVec, idle |-> TRUE, over |-> {},
     grabs |-> <<>>, overwrote |-> FALSE, camUsed |-> 0, reset |-> FALSE,
     wheel |-> 0, triggered |-> {},
     sliderBefore |-> NULL, orbit |-> <<0, 0>>, sliderGrabs |-> <<>>,
     sliderCleared |-> FALSE, raysBefore |-> 0]

\* update2D up to the light ray count: the viewport, the pointer in world
\* space, the session's update and release, the light ray count.  The result
\* is the frame so far: state, heap, session, viewport and the frame's log
\* (raysBefore: state.lightRayNum as update2D finds it; its loops read the
\* value the two assignments leave in the state).
beginUpdate2D_ClampFirst(st, h, d, vp, m, buttons, wheel) ==
    LET mouseWorld == transformCanvasToWorld2D(vp, m)
        upd == IF d # NULL THEN DragUpdate(d, h, mouseWorld, buttons)
               ELSE [heap |-> h, released |-> FALSE]
    IN  [state |-> [st EXCEPT !.lightRayNum = Max(@, 2) - Sign(wheel)],
         heap |-> upd.heap,
         drag |-> IF upd.released THEN NULL ELSE d,
         viewport |-> vp,
         log |-> [NoFrame EXCEPT !.kind = "2D", !.mouseWorld = mouseWorld,
                                 !.buttons = buttons, !.before = d,
                                 !.released = upd.released,
                                 !.out = IF d # NULL THEN upd.heap[d.out] ELSE ZeroVec,
                                 !.idle = upd.released \/ d = NULL,
                                 !.wheel = wheel,
                                 !.raysBefore = st.lightRayNum]]
beginUpdate2D(st, h, d, vp, m, buttons, wheel) ==
    LET mouseWorld == transformCanvasToWorld2D(vp, m)
        upd == IF d # NULL THEN DragUpdate(d, h, mouseWorld, buttons)
               ELSE [heap |-> h, released |-> FALSE]
    IN  [state |-> [st EXCEPT !.lightRayNum = Max(@ - Sign(wheel), 2)],
         heap |-> upd.heap,
         drag |-> IF upd.released THEN NULL ELSE d,
         viewport |-> vp,
         log |-> [NoFrame EXCEPT !.kind = "2D", !.mouseWorld = mouseWorld,
                                 !.buttons = buttons, !.before = d,
                                 !.released = upd.released,
                                 !.out = IF d # NULL THEN upd.heap[d.out] ELSE ZeroVec,
                                 !.idle = upd.released \/ d = NULL,
                                 !.wheel = wheel,
                                 !.raysBefore = st.lightRayNum]]

\* The hit tests of the frame, on the state the update step left.
hitTests(f) ==
    [f EXCEPT !.log.over = OverHandles(f.state, f.heap, f.viewport, f.log.mouseWorld)]

\* The surface site: new NormalDrag(this.state.surfaceNormal, origin, mouseWorld, ..).
surfaceSite(f) ==
    IF SurfaceGrab(f.drag, f.state, f.heap, f.viewport, f.log.mouseWorld, f.log.buttons)
    THEN [f EXCEPT !.drag = NewNormalDrag(f.heap, f.state.surfaceNormal, <<0, 0>>,
                                          f.log.mouseWorld, f.log.buttons),
                   !.log.grabs = Append(@, "surface"),
                   !.log.overwrote = @ \/ f.drag # NULL]
    ELSE f

\* The light direction site: new NormalDrag(this.state.lightDir, origin, mouseWorld, ..).
lightDirSite(f) ==
    IF LightDirGrab(f.drag, f.state, f.heap, f.viewport, f.log.mouseWorld, f.log.buttons)
    THEN [f EXCEPT !.drag = NewNormalDrag(f.heap, f.state.lightDir, <<0, 0>>,
                                          f.log.mouseWorld, f.log.buttons),
                   !.log.grabs = Append(@, "lightDir"),
                   !.log.overwrote = @ \/ f.drag # NULL]
    ELSE f

\* The light position site: new PositionDrag(this.state.lightPos, mouseWorld, ..).
lightPosSite(f) ==
    IF LightPosGrab(f.drag, f.state, f.heap, f.viewport, f.log.mouseWorld, f.log.buttons)
    THEN [f EXCEPT !.drag = NewPositionDrag(f.heap, f.state.lightPos,
                                            f.log.mouseWorld, f.log.buttons),
                   !.log.grabs = Append(@, "lightPos"),
                   !.log.overwrote = @ \/ f.drag # NULL]
    ELSE f

\* Viz.update2D, the part that changes state: the update step, then the three
\* places that construct a session, in the order of the code.
update2D_LightFirst(st, h, d, size, m, buttons, wheel) ==
    surfaceSite(lightPosSite(lightDirSite(hitTests(
        beginUpdate2D(st, h, d, beginFrame2D(size), m, buttons, wheel)))))
update2D(st, h, d, size, m, buttons, wheel) ==
    lightPosSite(lightDirSite(surfaceSite(hitTests(
        beginUpdate2D(st, h, d, beginFrame2D(size), m, buttons, wheel)))))

\* lerp, invlerp, saturate (clamp to 0..1) on rationals.
lerp(a, b, t) == RAdd(RMul(RSub(b, a), t), a)
invlerp(a, b, v) == RDiv(RSub(v, a), RSub(b, a))
saturate(x) == RMin(RInt(1), RMax(RInt(0), x))

\* A value of Viz.sliderDragLabel other than null.
Label(label) == [kind |-> "label", label |-> label]

\* The four slider(..) calls of update3D, in the order they are made.
Sliders ==
    << [field |-> "frustumFovy", y |-> Rat(-70, 100), min |-> RInt(15),
        max |-> RInt(180), label |-> "Field of View"],
       [field |-> "frustumAspect", y |-> Rat(-78, 100), min |-> Rat(1, 10),
        max |-> RInt(3), label |-> "Aspect Ratio"],
       [field |-> "frustumFar", y |-> Rat(-86, 100), min |-> Rat(1, 10),
        max |-> RInt(100), label |-> "Far Plane"],
       [field |-> "frustumCubeLerp", y |-> Rat(-94, 100), min |-> RInt(0),
        max |-> RInt(1), label |-> "Perspective Divide" ] >>

\* The track of a slider is sizeX canvas pixels long.
sizeX == 200
\* The radius around the handle within which the pointer is over it.
handleRadius == 24

\* <<trackMinX, trackY>> of the slider drawn at world (0, y).
sliderTrack(vp, y) == transformWorld2DToCanvasQ(vp, <<RInt(0), y>>)

\* handlePos of a slider that is not being dragged.
sliderHandle(track, s, value) ==
    <<lerp(track[1], RAdd(track[1], RInt(sizeX)), invlerp(s.min, s.max, value)),
      track[2]>>

\* The value a dragged slider takes from the pointer's x.
sliderValue(track, s, m) ==
    lerp(s.min, s.max,
         saturate(invlerp(track[1], RAdd(track[1], RInt(sizeX)), RInt(m[1]))))

\* vec2.distance(mouse, handlePos) <= 24.  The squares are formed only when
\* both coordinates differ by at most 24.
withinRadius(dx, dy) ==
    /\ ~RLess(RInt(handleRadius), dx) /\ ~RLess(dx, RInt(-handleRadius))
    /\ ~RLess(RInt(handleRadius), dy) /\ ~RLess(dy, RInt(-handleRadius))
    /\ ~RLess(RInt(handleRadius * handleRadius), RAdd(RMul(dx, dx), RMul(dy, dy)))
overHandle(m, handlePos) ==
    withinRadius(RSub(RInt(m[1]), handlePos[1]), RSub(RInt(m[2]), handlePos[2]))

\* update3D up to the UI: beginFrame3D reads the camera distance, the camera
\* orbit adds mouseDelta when a button is held and no slider is dragged, the
\* wheel moves the camera distance and it is clamped; the UI part calls
\* beginFrame2D.  Viz.drag is not read or written.
beginUpdate3D(st, h, d, sl, size, m, delta, buttons, wheel) ==
    [state |-> [st EXCEPT
                  !.cameraLatitude3D = IF buttons # 0 /\ sl = NULL THEN @ + delta[1] ELSE @,
                  !.cameraLongitude3D = IF buttons # 0 /\ sl = NULL THEN @ + delta[2] ELSE @,
                  !.cameraDistance3D = Min(@ - Sign(wheel) * 4, -10)],
     heap |-> h, drag |-> d, slider |-> sl, viewport |-> beginFrame2D(size),
     viewportQ |-> beginFrame2DQ(size), mouse |-> m,
     log |-> [NoFrame EXCEPT !.kind = "3D", !.buttons = buttons, !.before = d,
                             !.idle = d = NULL,
                             !.camUsed = st.cameraDistance3D, !.wheel = wheel,
                             !.sliderBefore = sl,
                             !.orbit = IF buttons # 0 /\ sl = NULL THEN delta
                                       ELSE <<0, 0>>]]

\* One call slider({..}) and the assignment of its result to the state.
slider(f, s) ==
    IF f.slider = Label(s.label)
    THEN [f EXCEPT !.state[s.field] = sliderValue(sliderTrack(f.viewportQ, s.y), s, f.mouse),
                   !.slider = IF f.log.buttons = 0 THEN NULL ELSE @,
                   !.log.sliderCleared = f.log.buttons = 0]
    ELSE IF /\ f.slider = NULL
            /\ overHandle(f.mouse, sliderHandle(sliderTrack(f.viewportQ, s.y), s,
                                                f.state[s.field]))
            /\ f.log.buttons # 0
    THEN [f EXCEPT !.slider = Label(s.label),
                   !.log.sliderGrabs = Append(@, s.label)]
    ELSE f

\* Viz.update3D.
update3D(st, h, d, sl, size, m, delta, buttons, wheel) ==
    slider(slider(slider(slider(
        beginUpdate3D(st, h, d, sl, size, m, delta, buttons, wheel),
        Sliders[1]), Sliders[2]), Sliders[3]), Sliders[4])

\* The objects still referred to by the state or by the session.
Live(st, d) ==
    {st.surfaceNormal, st.lightDir, st.lightPos} \cup (IF d = NULL THEN {} ELSE {d.out})

\* Object ids are names only.  When the state holds every reference there is
\* to its three vectors (no session, or a session writing to one of them),
\* they are renamed to 1, 2, 3; otherwise every object keeps its id and the
\* unreferenced ones are dropped.  A session that lives across the frame
\* keeps its id either way: its vector was named so when it was grabbed.
Collect(st, h, d) ==
    LET ids == <<st.surfaceNormal, st.lightDir, st.lightPos>>
    IN  IF d = NULL \/ d.out \in {ids[1], ids[2], ids[3]}
        THEN [state |-> [st EXCEPT !.surfaceNormal = 1, !.lightDir = 2, !.lightPos = 3],
              heap |-> <<h[ids[1]], h[ids[2]], h[ids[3]]>>,
              drag |-> IF d = NULL THEN NULL
                       ELSE [d EXCEPT !.out = CHOOSE i \in 1..3 : ids[i] = d.out]]
        ELSE [state |-> st, heap |-> [i \in Live(st, d) |-> h[i]], drag |-> d]

\* The head of Viz.update: the demo switch, then the reset on KeyP.
applyKeys(st, h, d, keys) ==
    IF isKeyDownEventTriggered(keys, "KeyP") THEN resetStateToDefault(h, d)
    ELSE [state |-> [st EXCEPT !.demo = setDemo(st.demo, keys)], heap |-> h]

\* Viz.update after the keys: update3D for a 3D demo, update2D otherwise
\* (update2D does not touch sliderDragLabel).
updateDemo(r, d, sl, size, m, delta, buttons, wheel) ==
    IF Is3D(r.state.demo)
    THEN update3D(r.state, r.heap, d, sl, size, m, delta, buttons, wheel)
    ELSE update2D(r.state, r.heap, d, size, m, buttons, wheel) @@ [slider |-> sl]

\* The end of the frame res: what the frame leaves, and Canvas.endFrame.
endFrame(res) ==
    /\ state' = Collect(res.state, res.heap, res.drag).state
    /\ heap' = Collect(res.state, res.heap, res.drag).heap
    /\ drag' = Collect(res.state, res.heap, res.drag).drag
    /\ sliderDragLabel' = res.slider
    /\ viewport2D' = res.viewport
    /\ frameLog' = [res.log EXCEPT
                        !.reset = isKeyDownEventTriggered(keysDown, "KeyP"),
                        !.triggered = {k \in DOMAIN keysDown :
                                          isKeyDownEventTriggered(keysDown, k)}]
    /\ mouseWheel' = 0
    /\ mouseLast' = mouse
    /\ mouseDelta' = <<0, 0>>
    /\ keysDown' = [k \in DOMAIN keysDown |-> FALSE]
    /\ grab' = IF DOMAIN keysDown = {} THEN grab
               ELSE [grab EXCEPT
                        !.frames = Min(@ + 1, 2),
                        !.triggers = IF \E k \in DOMAIN keysDown :
                                           isKeyDownEventTriggered(keysDown, k)
                                     THEN @ + 1 ELSE @]
    /\ UNCHANGED <<mouse, mouseButton, canvasSize, press>>
    /\ UNCHANGED clipVars

\* One call of Viz.update: demo switch, reset on KeyP, update2D or update3D,
\* Canvas.endFrame.
Frame ==
    endFrame(updateDemo(applyKeys(state, heap, drag, keysDown), drag, sliderDragLabel,
                        canvasSize, mouse, mouseDelta, mouseButton, mouseWheel))

-----------------------------------------------------------------------------
(* Input events *)

\* The handles under canvas pixel p, as the next 2D frame would test them.
HandlesAt(st, h, size, p) ==
    IF Is3D(st.demo) THEN {}
    ELSE OverHandles(st, h, beginFrame2D(size),
                     transformCanvasToWorld2D(beginFrame2D(size), p))

\* Canvas.updateMouseState (mousedown, mousemove, mouseup).
updateMouseState(p, buttons) ==
    /\ mouse' = p
    /\ mouseDelta' = Sub(p, mouseLast)
    /\ mouseButton' = buttons
    /\ press' = IF buttons = 0 THEN "none"
                ELSE IF mouseButton = 0
                THEN (IF HandlesAt(state, heap, canvasSize, p) = {} THEN "off" ELSE "over")
                ELSE press
    /\ frameLog' = NoFrame
    /\ UNCHANGED <<mouseLast, mouseWheel, keysDown, canvasSize>>
    /\ UNCHANGED <<viewport2D, heap, state, drag, sliderDragLabel>>
    /\ UNCHANGED clipVars

\* Canvas.onKeyDown: keysDown.set(e.code, !e.repeat).  A repeat event comes
\* only for a key that is held.
onKeyDown_IgnoresRepeat(key, repeat) ==
    /\ repeat <=> key \in DOMAIN keysDown
    /\ keysDown' = [k \in DOMAIN keysDown \cup {key} |-> IF k = key THEN TRUE ELSE keysDown[k]]
    /\ frameLog' = NoFrame
    /\ UNCHANGED <<mouse, mouseLast, mouseDelta, mouseButton, mouseWheel, canvasSize>>
    /\ UNCHANGED <<viewport2D, heap, state, drag, sliderDragLabel, press>>
    /\ UNCHANGED clipVars
onKeyDown(key, repeat) ==
    /\ repeat <=> key \in DOMAIN keysDown
    /\ keysDown' = [k \in DOMAIN keysDown \cup {key} |-> IF k = key THEN ~repeat ELSE keysDown[k]]
    /\ frameLog' = NoFrame
    /\ UNCHANGED <<mouse, mouseLast, mouseDelta, mouseButton, mouseWheel, canvasSize>>
    /\ UNCHANGED <<viewport2D, heap, state, drag, sliderDragLabel, press>>
    /\ UNCHANGED clipVars

\* Canvas.onKeyUp: keysDown.delete(e.code).
onKeyUp(key) ==
    /\ key \in DOMAIN keysDown
    /\ keysDown' = [k \in DOMAIN keysDown \ {key} |-> keysDown[k]]
    /\ frameLog' = NoFrame
    /\ UNCHANGED <<mouse, mouseLast, mouseDelta, mouseButton, mouseWheel, canvasSize>>
    /\ UNCHANGED <<viewport2D, heap, state, drag, sliderDragLabel, press>>
    /\ UNCHANGED clipVars

\* Canvas.updateMouseWheel: mouseWheel = e.deltaY.
updateMouseWheel(deltaY) ==
    /\ mouseWheel' = deltaY
    /\ frameLog' = NoFrame
    /\ UNCHANGED <<mouse, mouseLast, mouseDelta, mouseButton, keysDown, canvasSize>>
    /\ UNCHANGED <<viewport2D, heap, state, drag, sliderDragLabel, press>>
    /\ UNCHANGED clipVars

\* Canvas.onResize: the canvas takes the size of the window.
onResize(size) ==
    /\ canvasSize' = size
    /\ frameLog' = NoFrame
    /\ UNCHANGED <<mouse, mouseLast, mouseDelta, mouseButton, mouseWheel, keysDown>>
    /\ UNCHANGED <<viewport2D, heap, state, drag, sliderDragLabel, press, grab>>
    /\ UNCHANGED clipVars

-----------------------------------------------------------------------------
(* The pointer specification: a 200 x 200 canvas, the pointer on five       *)
(* sample pixels, two buttons, no keyboard, and the demo that localStorage  *)
(* held when the page was loaded.                                           *)

\* Canvas pixels: the canvas centre (world (0, 0)), a point of the default
\* surface (-0.2, 0.2), a point of the default normal arrow (0.1, 0.1), the
\* default light position (0.75, 0.75), and a point just beyond the end of
\* the default surface (-0.29, 0.29), less than 0.02 from the segment and more
\* than 0.4 from the origin.
SamplePixels == {<<100, 100>>, <<80, 80>>, <<110, 90>>, <<175, 25>>, <<71, 71>>}
SampleButtons == {0, 1, 2}
\* The demo of the state that loadState finds in localStorage at construction.
StoredDemos == {"DotProduct", "PointLightPixel"}
SampleCanvas == <<200, 200>>

NoClip == [n |-> <<0, 0, 0, 0>>, d |-> 1]
NoGrab ==
    [value |-> ZeroVec, origin |-> <<0, 0>>, dragStart |-> <<0, 0>>,
     updates |-> 0, prev |-> <<0, 0>>, wheels |-> 0, frames |-> 0, triggers |-> 0]

\* new Viz(): state = {...stateDefault}, then loadState() from localStorage.
InitViz ==
    \E stored \in StoredDemos :
    LET s0 == loadState([stateDefault EXCEPT !.demo = stored], <<>>, {})
    IN  /\ mouse = <<0, 0>>
        /\ mouseLast = <<0, 0>>
        /\ mouseDelta = <<0, 0>>
        /\ mouseButton = 0
        /\ mouseWheel = 0
        /\ keysDown = <<>>
        /\ viewport2D = <<0, 0, 0, 0>>
        /\ heap = s0.heap
        /\ state = s0.state
        /\ drag = NULL
        /\ sliderDragLabel = NULL
        /\ frameLog = NoFrame
        /\ press = "none"
        /\ grab = NoGrab

InitClip ==
    /\ clipA = NoClip
    /\ clipB = NoClip
    /\ clipIn = [a |-> NoClip, b |-> NoClip, plane |-> <<0, 0, 0, 0>>]
    /\ lineIsVisible = FALSE
    /\ canvasLines = <<>>

Init == canvasSize = SampleCanvas /\ InitViz /\ InitClip

MouseEvent ==
    \E p \in SamplePixels, b \in SampleButtons : updateMouseState(p, b) /\ UNCHANGED grab

Next == MouseEvent \/ Frame

Spec == Init /\ [][Next]_vars

-----------------------------------------------------------------------------
(* The event specification: every kind of event (pointer, wheel, resize,    *)
(* key down, key repeat, key up) and frames, with the pointer at its        *)
(* initial place or on one sample pixel, one button, two keys, two window   *)
(* sizes.                                                                   *)

\* How many wheel events a behaviour holds.
MaxWheelEvents == 1

\* World (-0.2, 0.2) on the 200 x 200 canvas, a point of the default surface;
\* world (-0.6, 0.6) on the 400 x 400 canvas, beyond the end of the surface
\* and outside the radius of the light direction handle.  On neither canvas
\* is it within reach of a slider handle of the 3D demos.
InputPixels == {<<80, 80>>}
InputButtons == {0, 1}
WheelDeltas == {-100, 100}
\* Digit4 selects CameraFrustum, a 3D demo; KeyP resets the state.
SampleKeys == {"Digit4", "KeyP"}
WindowSizes == {<<200, 200>>, <<400, 400>>}

InitInputs ==
    /\ canvasSize = SampleCanvas
    /\ InitClip
    /\ LET s0 == loadState(stateDefault, <<>>, {})
       IN  /\ mouse = <<0, 0>>
           /\ mouseLast = <<0, 0>>
           /\ mouseDelta = <<0, 0>>
           /\ mouseButton = 0
           /\ mouseWheel = 0
           /\ keysDown = <<>>
           /\ viewport2D = <<0, 0, 0, 0>>
           /\ heap = s0.heap
           /\ state = s0.state
           /\ drag = NULL
           /\ sliderDragLabel = NULL
           /\ frameLog = NoFrame
           /\ press = "none"
           /\ grab = NoGrab

PointerEvent ==
    \E p \in InputPixels, b \in InputButtons : updateMouseState(p, b) /\ UNCHANGED grab
Wheel ==
    \E deltaY \in WheelDeltas :
        /\ grab.wheels < MaxWheelEvents
        /\ grab' = [grab EXCEPT !.wheels = @ + 1]
        /\ updateMouseWheel(deltaY)
Resize == \E size \in WindowSizes : size # canvasSize /\ onResize(size)
\* One key is held at a time.  grab.frames counts the frames run since the
\* key went down (up to 2), grab.triggers those of them in which
\* isKeyDownEventTriggered was true for it.
KeyDown ==
    \E k \in SampleKeys :
        /\ keysDown = <<>>
        /\ onKeyDown(k, FALSE)
        /\ grab' = [grab EXCEPT !.frames = 0, !.triggers = 0]
KeyRepeat == \E k \in SampleKeys : onKeyDown(k, TRUE) /\ UNCHANGED grab
KeyUp ==
    \E k \in SampleKeys :
        /\ onKeyUp(k)
        /\ grab' = [grab EXCEPT !.frames = 0, !.triggers = 0]

NextInputs ==
    PointerEvent \/ Wheel \/ Resize \/ KeyDown \/ KeyRepeat \/ KeyUp \/ Frame

SpecInputs == InitInputs /\ [][NextInputs]_vars

-----------------------------------------------------------------------------
(* Claims about the drag state machine *)

\* C1: a session is constructed only where Viz.drag is null, and a frame
\* constructs at most one session (so at most one session is ever active).
C1_OneSessionPerFrame ==
    frameLog.kind = "2D" =>
        /\ Len(frameLog.grabs) <= 1
        /\ ~frameLog.overwrote
        /\ (frameLog.grabs # <<>> => frameLog.idle /\ drag # NULL)

\* A frame with the pointer over a handle and a button held that constructed
\* no session, because the session constructed earlier was still active.
C1_Witness ==
    /\ frameLog.kind = "2D"
    /\ frameLog.before # NULL
    /\ ~frameLog.released
    /\ frameLog.over # {}
    /\ frameLog.buttons # 0
    /\ frameLog.grabs = <<>>
    /\ drag = frameLog.before

\* C2: an active session ends or is replaced only in a 2D frame whose
\* session.update returned true, the sampled mask differing from the captured
\* one; key events, a reset, a 3D frame and pointer events leave it in place.
C2_ReleaseOnlyByUpdate ==
    [][(drag # NULL /\ drag' # drag) =>
          /\ frameLog'.kind = "2D"
          /\ frameLog'.before = drag
          /\ frameLog'.released
          /\ frameLog'.buttons = mouseButton
          /\ drag.mouseButtons # mouseButton]_vars

\* On a resized canvas a session survived a frame that reset the state and
\* sampled a wheel movement.
C2_Witness ==
    /\ frameLog.reset
    /\ frameLog.wheel # 0
    /\ canvasSize # SampleCanvas
    /\ drag # NULL
    /\ drag = frameLog.before

\* C3: at the end of every frame whose sampled mask differs from the mask
\* the active session captured, that session is no longer active, whichever
\* demo is selected.
C3_DestroyedOnMaskChange ==
    (/\ frameLog.kind \in {"2D", "3D"}
     /\ frameLog.before # NULL
     /\ frameLog.before.mouseButtons # frameLog.buttons)
    => drag # frameLog.before

\* C4: a session is constructed only with a non-zero sampled mask and a hit
\* on a handle the current demo shows; it captures the sampled mask, so every
\* active session's captured mask is non-zero.
C4_GrabNeedsHitAndButton ==
    /\ (drag # NULL => drag.mouseButtons # 0)
    /\ (frameLog.kind = "2D" /\ frameLog.grabs # <<>>) =>
          /\ frameLog.buttons # 0
          /\ drag.mouseButtons = frameLog.buttons
          /\ frameLog.grabs[1] \in frameLog.over
          /\ frameLog.grabs[1] = "lightDir" => state.demo \in {"DotProduct", "DotProductNormal"}
          /\ frameLog.grabs[1] = "lightPos" => state.demo \in {"PointLight", "PointLightPixel"}

C4_Witness ==
    /\ frameLog.kind = "2D" /\ frameLog.grabs = <<"lightPos">>
    /\ drag.kind = "PositionDrag" /\ drag.mouseButtons = 2

\* C5 as stated: a session is constructed only if the buttons were pressed
\* (0 -> non-zero) with the pointer over a handle.
C5_OnlyOnPressOverHandle ==
    (frameLog.kind = "2D" /\ frameLog.grabs # <<>>) => press = "over"

\* C5 amended: whenever a 2D frame has no session after its update step, the
\* pointer over a handle and a non-zero mask, it constructs a session,
\* wherever the buttons were pressed.
C5_GrabWheneverHeldOverHandle ==
    (/\ frameLog.kind = "2D"
     /\ frameLog.idle
     /\ frameLog.over # {}
     /\ frameLog.buttons # 0)
    => /\ Len(frameLog.grabs) = 1
       /\ drag # NULL
       /\ drag.mouseButtons = frameLog.buttons

\* The buttons were pressed away from every handle, and the session was
\* constructed when the pointer reached one.
C5_Witness ==
    frameLog.kind = "2D" /\ frameLog.grabs # <<>> /\ press = "off"

\* C6: the vector an active session writes to is one of the state's
\* draggable vectors.
C6_OutIsStateVector ==
    drag # NULL => drag.out \in {state.surfaceNormal, state.lightDir, state.lightPos}

\* C9: every NormalDrag update leaves the value as long as it was at grab
\* time, and the surface normal and the light direction stay unit vectors.
C9_LengthKept ==
    /\ (/\ frameLog.kind = "2D"
        /\ frameLog.before # NULL
        /\ frameLog.before.kind = "NormalDrag")
       => SameLength(frameLog.out, frameLog.before.normalStart)
    /\ IsUnit(SurfaceNormalOf(state, heap))
    /\ IsUnit(LightDirOf(state, heap))

\* C15: a 2D frame works on one sample of the pointer: the world position
\* is the conversion of Canvas.mouse as it is at the frame, the mask given to
\* drag.update and tested by the three construction sites is
\* Canvas.mouseButton, and the session's update, the hit tests and a session
\* constructed in the frame all use that position and mask.
C15_OneSamplePerFrame ==
    frameLog.kind = "2D" =>
        /\ frameLog.mouseWorld = transformCanvasToWorld2D(viewport2D, mouse)
        /\ frameLog.buttons = mouseButton
        /\ frameLog.before # NULL =>
              /\ frameLog.released <=> frameLog.before.mouseButtons # mouseButton
              /\ frameLog.before.kind = "PositionDrag" =>
                    frameLog.out = Add(frameLog.mouseWorld, frameLog.before.offset)
              /\ frameLog.before.kind = "NormalDrag" =>
                    frameLog.out =
                        Rotate(frameLog.before.normalStart,
                               normalize(Sub(frameLog.before.dragStart,
                                             frameLog.before.origin)),
                               normalize(Sub(frameLog.mouseWorld,
                                             frameLog.before.origin)))
        /\ frameLog.over = OverHandles(state, heap, viewport2D, frameLog.mouseWorld)
        /\ frameLog.grabs # <<>> =>
              /\ drag.mouseButtons = mouseButton
              /\ drag.kind = "NormalDrag" => drag.dragStart = frameLog.mouseWorld
              /\ drag.kind = "PositionDrag" =>
                    drag.offset = Sub(heap[drag.out], frameLog.mouseWorld)

\* One frame updates and releases a session (the mask went from 1 to 2) and
\* constructs the next one with the same pointer sample.
C15_Witness ==
    /\ frameLog.kind = "2D"
    /\ frameLog.before # NULL
    /\ frameLog.before.mouseButtons = 1
    /\ frameLog.released
    /\ frameLog.grabs # <<>>
    /\ drag.mouseButtons = 2
    /\ mouseButton = 2

\* C19: a 2D frame with no session after its update step and a button held
\* tests the surface first, then the light direction, then the light
\* position: over the surface (alone or together with another handle) it
\* constructs a NormalDrag on surfaceNormal, otherwise over the light
\* direction a NormalDrag on lightDir, otherwise over the light position a
\* PositionDrag on lightPos, and never a second session.  The light direction
\* is a handle only in the dot-product demos at distance >= 0.4 from the
\* origin, the light position only in the point-light demos.
C19_SurfaceFirst ==
    frameLog.kind = "2D" =>
        /\ Len(frameLog.grabs) <= 1
        /\ "lightDir" \in frameLog.over =>
              /\ state.demo \in {"DotProduct", "DotProductNormal"}
              /\ SqLen(frameLog.mouseWorld) >= 40 * 40
        /\ "lightPos" \in frameLog.over =>
              state.demo \in {"PointLight", "PointLightPixel"}
        /\ (frameLog.idle /\ frameLog.buttons # 0) =>
              /\ "surface" \in frameLog.over =>
                    /\ frameLog.grabs = <<"surface">>
                    /\ drag.kind = "NormalDrag"
                    /\ drag.out = state.surfaceNormal
              /\ ("surface" \notin frameLog.over /\ "lightDir" \in frameLog.over) =>
                    /\ frameLog.grabs = <<"lightDir">>
                    /\ drag.kind = "NormalDrag"
                    /\ drag.out = state.lightDir
              /\ frameLog.over = {"lightPos"} =>
                    /\ frameLog.grabs = <<"lightPos">>
                    /\ drag.kind = "PositionDrag"
                    /\ drag.out = state.lightPos

\* The pointer is over the end of the surface and far enough out for the
\* light direction: the session is on the surface normal.
C19_Witness ==
    /\ frameLog.kind = "2D"
    /\ frameLog.over = {"surface", "lightDir"}
    /\ frameLog.grabs = <<"surface">>
    /\ drag.out = state.surfaceNormal

\* C20: while a key is held, isKeyDownEventTriggered is true for it in at
\* most one frame, and only in the first frame run after the key went down;
\* repeat events and later frames do not trigger it again.  A reset happens
\* only in a frame in which KeyP is triggered.
C20_KeyOneShot ==
    /\ grab.triggers <= 1
    /\ (frameLog.kind \in {"2D", "3D"} /\ frameLog.triggered # {}) =>
          /\ grab.frames = 1
          /\ grab.triggers = 1
    /\ (frameLog.kind \in {"2D", "3D"} /\ frameLog.reset) => "KeyP" \in frameLog.triggered

\* KeyP is still held in a second frame after the frame that reset the state:
\* nothing is triggered.
C20_Witness ==
    /\ frameLog.kind = "2D"
    /\ "KeyP" \in DOMAIN keysDown
    /\ grab.frames = 2
    /\ grab.triggers = 1
    /\ frameLog.triggered = {}
    /\ ~frameLog.reset

-----------------------------------------------------------------------------
(* The session classes on their own: a session constructed on a vec2 with   *)
(* arguments drawn from small sets, then updated any number of times.       *)

\* How many update calls a session under test receives.
MaxUpdates == 3

DragPoints == {<<0, 0>>, <<1, 0>>, <<0, 1>>, <<2, 2>>, <<5, 5>>, <<-3, 1>>}
DragOrigins == {<<0, 0>>, <<1, 0>>}
PositionValues == {<<5, 5>>, <<0, 0>>, <<-3, 1>>}
\* (1, 0), (1, 1) / sqrt(2), (3, 4) / 5 and the non-unit (2, 0).
NormalValues ==
    {[n |-> <<1, 0>>, d |-> 1], [n |-> <<1, 1>>, d |-> 2],
     [n |-> <<3, 4>>, d |-> 25], [n |-> <<2, 0>>, d |-> 1]}

InitDrag ==
    /\ canvasSize = SampleCanvas
    /\ InitClip
    /\ \E kind \in {"PositionDrag", "NormalDrag"},
          origin \in DragOrigins, dragStart \in DragPoints,
          buttons \in SampleButtons \ {0} :
        \E value \in IF kind = "PositionDrag" THEN PositionValues ELSE NormalValues :
          LET s0 == loadState(stateDefault, <<>>, {})
              out == 4
              h == [i \in DOMAIN s0.heap \cup {out} |->
                      IF i = out THEN value ELSE s0.heap[i]]
          IN  /\ kind = "PositionDrag" => origin = <<0, 0>>
              /\ mouse = <<0, 0>>
              /\ mouseLast = <<0, 0>>
              /\ mouseDelta = <<0, 0>>
              /\ mouseButton = buttons
              /\ mouseWheel = 0
              /\ keysDown = <<>>
              /\ viewport2D = <<0, 0, 0, 0>>
              /\ heap = h
              /\ state = s0.state
              /\ drag = IF kind = "PositionDrag"
                        THEN NewPositionDrag(h, out, dragStart, buttons)
                        ELSE NewNormalDrag(h, out, origin, dragStart, buttons)
              /\ sliderDragLabel = NULL
              /\ frameLog = NoFrame
              /\ press = "none"
              /\ grab = [NoGrab EXCEPT !.value = value, !.origin = origin,
                                       !.dragStart = dragStart]

\* One call drag.update(pointer, buttons).
UpdateCall ==
    \E pointer \in DragPoints, buttons \in SampleButtons :
        LET upd == DragUpdate(drag, heap, pointer, buttons)
        IN  /\ grab.updates < MaxUpdates
            /\ heap' = upd.heap
            /\ frameLog' = [NoFrame EXCEPT !.kind = "update",
                                           !.mouseWorld = pointer,
                                           !.buttons = buttons,
                                           !.before = drag,
                                           !.released = upd.released,
                                           !.out = upd.heap[drag.out]]
            /\ grab' = [grab EXCEPT !.updates = @ + 1, !.prev = frameLog.mouseWorld]
            /\ UNCHANGED <<viewport2D, state, drag, sliderDragLabel, press>>
            /\ UNCHANGED inputVars
            /\ UNCHANGED clipVars

NextDrag == UpdateCall

SpecDrag == InitDrag /\ [][NextDrag]_vars

\* C7: every PositionDrag.update sets the value to
\* pointer + (initialValue - dragStart), whatever updates came before, and the
\* recorded offset stays initialValue - dragStart.
C7_PositionDragFollows ==
    drag.kind = "PositionDrag" =>
        /\ drag.offset = Sub(grab.value, grab.dragStart)
        /\ frameLog.kind = "update" =>
              /\ frameLog.out = Add(frameLog.mouseWorld, Sub(grab.value, grab.dragStart))
              /\ heap[drag.out] = frameLog.out

\* dragStart = (2,2), initialValue = (5,5): a later update with pointer (0,0)
\* after an update elsewhere gives (3,3).
C7_Witness ==
    /\ drag.kind = "PositionDrag"
    /\ grab.value = <<5, 5>> /\ grab.dragStart = <<2, 2>>
    /\ grab.updates >= 2 /\ grab.prev = <<-3, 1>>
    /\ frameLog.mouseWorld = <<0, 0>> /\ frameLog.out = <<3, 3>>

\* C8: every NormalDrag.update, with the grab point and the pointer away from
\* the pivot, sets the value to the grab-time value turned by the signed angle
\* from (dragStart - origin) to (pointer - origin): same length, and the angle
\* from the grab-time value to the new value has the cosine and sine of the
\* angle from (dragStart - origin) to (pointer - origin).
C8_NormalDragRotates ==
    LET a == Sub(grab.dragStart, grab.origin)
        b == Sub(frameLog.mouseWorld, grab.origin)
        ns == grab.value
        o == frameLog.out
    IN  (/\ drag.kind = "NormalDrag"
         /\ frameLog.kind = "update"
         /\ SqLen(a) > 0
         /\ SqLen(b) > 0)
        => /\ SameLength(o, ns)
           /\ Dot2(ns.n, o.n) * Cross2(a, b) = Cross2(ns.n, o.n) * Dot2(a, b)
           /\ Sign(Dot2(ns.n, o.n)) = Sign(Dot2(a, b))
           /\ Sign(Cross2(ns.n, o.n)) = Sign(Cross2(a, b))
           /\ heap[drag.out] = o
           /\ (ns = [n |-> <<1, 0>>, d |-> 1] /\ a = <<1, 0>> /\ b = <<0, 1>>)
                 => o = [n |-> <<0, 1>>, d |-> 1]

\* Value (1,0), origin (0,0), dragStart (1,0): after an update with pointer
\* (0,1), a second update with the pointer back at (1,0) gives (1,0).
C8_Witness ==
    /\ drag.kind = "NormalDrag"
    /\ grab.value = [n |-> <<1, 0>>, d |-> 1]
    /\ grab.origin = <<0, 0>> /\ grab.dragStart = <<1, 0>>
    /\ grab.updates = 2 /\ grab.prev = <<0, 1>>
    /\ frameLog.mouseWorld = <<1, 0>>
    /\ frameLog.out = [n |-> <<1, 0>>, d |-> 1]

-----------------------------------------------------------------------------
(* Clipping of 3D line segments.  A vec4 is [n |-> <<x, y, z, w>>, d |-> D] *)
(* with D > 0, standing for (x, y, z, w) / D in lowest terms.               *)

Dot4(a, b) == a[1] * b[1] + a[2] * b[2] + a[3] * b[3] + a[4] * b[4]

Reduce4(n, d) ==
    LET G == GCD(GCD(GCD(Abs(n[1]), Abs(n[2])), GCD(Abs(n[3]), Abs(n[4]))), Abs(d))
        S == Sign(d) * G
    IN  [n |-> <<n[1] \div S, n[2] \div S, n[3] \div S, n[4] \div S>>, d |-> d \div S]

Vec4(v) == [n |-> v, d |-> 1]

\* vec4.lerp(out, a, b, t) with t = tn / td, td # 0: a + t * (b - a).
lerp4_EndPoint(a, b, tn, td) == b
lerp4(a, b, tn, td) ==
    Reduce4([i \in 1..4 |->
                a.n[i] * b.d * td + tn * (b.n[i] * a.d - a.n[i] * b.d)],
            a.d * b.d * td)

clipToPlane_NoEarlyReturn(clipPositionA, clipPositionB, planeNormal) ==
    LET dotA == Dot4(clipPositionA.n, planeNormal) * clipPositionB.d
        dotB == Dot4(clipPositionB.n, planeNormal) * clipPositionA.d
    IN  IF dotA < 0 /\ dotA # dotB
        THEN [visible |-> TRUE,
              a |-> lerp4(clipPositionA, clipPositionB, dotA, dotA - dotB),
              b |-> clipPositionB]
        ELSE IF dotB < 0 /\ dotA # dotB
        THEN [visible |-> TRUE, a |-> clipPositionA,
              b |-> lerp4(clipPositionA, clipPositionB, dotA, dotA - dotB)]
        ELSE [visible |-> TRUE, a |-> clipPositionA, b |-> clipPositionB]

clipToPlane_RejectsOnPlane(clipPositionA, clipPositionB, planeNormal) ==
    LET dotA == Dot4(clipPositionA.n, planeNormal) * clipPositionB.d
        dotB == Dot4(clipPositionB.n, planeNormal) * clipPositionA.d
    IN  IF dotA <= 0 /\ dotB <= 0
        THEN [visible |-> FALSE, a |-> clipPositionA, b |-> clipPositionB]
        ELSE IF dotA < 0
        THEN [visible |-> TRUE,
              a |-> lerp4(clipPositionA, clipPositionB, dotA, dotA - dotB),
              b |-> clipPositionB]
        ELSE IF dotB < 0
        THEN [visible |-> TRUE, a |-> clipPositionA,
              b |-> lerp4(clipPositionA, clipPositionB, dotA, dotA - dotB)]
        ELSE [visible |-> TRUE, a |-> clipPositionA, b |-> clipPositionB]

\* clipToPlane: the result and the two positions as the call leaves them.
\* dotA and dotB are taken over the common denominator of the two positions.
\* t = dotA / (dotA - dotB) is computed before the two tests that use it; the
\* division is by zero when dotA = dotB, where neither test is true.
clipToPlane(clipPositionA, clipPositionB, planeNormal) ==
    LET dotA == Dot4(clipPositionA.n, planeNormal) * clipPositionB.d
        dotB == Dot4(clipPositionB.n, planeNormal) * clipPositionA.d
    IN  IF dotA < 0 /\ dotB < 0
        THEN [visible |-> FALSE, a |-> clipPositionA, b |-> clipPositionB]
        ELSE IF dotA < 0
        THEN [visible |-> TRUE,
              a |-> lerp4(clipPositionA, clipPositionB, dotA, dotA - dotB),
              b |-> clipPositionB]
        ELSE IF dotB < 0
        THEN [visible |-> TRUE, a |-> clipPositionA,
              b |-> lerp4(clipPositionA, clipPositionB, dotA, dotA - dotB)]
        ELSE [visible |-> TRUE, a |-> clipPositionA, b |-> clipPositionB]

\* clipFromWorld3D for a camera on the +z axis at distance eyeZ looking at the
\* origin, on a square canvas: mat4.perspective(fovy = TAU / 4.5, aspect = 1,
\* near = 0.1, far = Infinity) times the translation by -eyeZ, every entry
\* multiplied by 5 (a positive factor on the whole homogeneous vector), with
\* 1 / tan(fovy / 2) = 1.19 taken as 6 / 5.  Rows of the matrix.
clipFromWorld3D(eyeZ) ==
    << <<6, 0, 0, 0>>,
       <<0, 6, 0, 0>>,
       <<0, 0, -5, 5 * eyeZ - 1>>,
       <<0, 0, -5, 5 * eyeZ>> >>

\* transformWorld3DToClip: (v, 1.0) transformed by the matrix.
transformWorld3DToClip(m, v) ==
    LET v4 == <<v[1], v[2], v[3], 1>>
    IN  Vec4(<<Dot4(m[1], v4), Dot4(m[2], v4), Dot4(m[3], v4), Dot4(m[4], v4)>>)

\* transformClipToCanvas: (canvasX, canvasYFlipped, clipZ) over the common
\* denominator 2 * clipW; a zero clipW gives no finite position.
transformClipToCanvas(size, clipSpace) ==
    LET x == clipSpace.n[1]
        y == clipSpace.n[2]
        z == clipSpace.n[3]
        w == clipSpace.n[4]
    IN  IF w = 0 THEN [finite |-> FALSE, n |-> <<0, 0, 0>>, d |-> 1]
        ELSE [finite |-> TRUE,
              n |-> <<Sign(w) * (x + w) * size[1],
                      Sign(w) * (2 * w * size[2] - (y + w) * size[2]),
                      Sign(w) * 2 * z>>,
              d |-> 2 * Abs(w)]

\* drawLine3D: the clipped positions, the result of clipToPlane and the
\* canvas.drawLine calls made.
drawLine3D(m, size, worldPositionA, worldPositionB) ==
    LET clipPositionA == transformWorld3DToClip(m, worldPositionA)
        clipPositionB == transformWorld3DToClip(m, worldPositionB)
        planeNormal == <<0, 0, 1, 1>>
        r == clipToPlane(clipPositionA, clipPositionB, planeNormal)
    IN  [in |-> [a |-> clipPositionA, b |-> clipPositionB, plane |-> planeNormal],
         clip |-> r,
         lines |-> IF ~r.visible THEN <<>>
                   ELSE << <<transformClipToCanvas(size, r.a),
                             transformClipToCanvas(size, r.b)>> >>]

ClipPoints ==
    {<<1, 0, 0, 1>>, <<0, 0, 1, 1>>, <<0, 0, -2, 1>>, <<0, 0, -3, 1>>,
     <<0, 0, -1, 1>>, <<2, 2, -1, 0>>, <<4, -1, 3, 1>>}
ClipPlanes == {<<0, 0, 1, 1>>, <<1, 0, 0, 0>>, <<0, 0, -1, 1>>}
WorldPoints3D ==
    {<<0, 0, 0>>, <<1, 2, 0>>, <<-2, 1, 9>>, <<0, 0, 10>>, <<3, -1, 20>>, <<0, 5, 30>>}
\* Camera distances: the closest the wheel allows and the default, in world units.
EyeDistances == {10, 100}

InitClipSpec == canvasSize = SampleCanvas /\ InitViz /\ InitClip

\* One call of clipToPlane on two clip positions.
ClipCall ==
    \E a \in ClipPoints, b \in ClipPoints, planeNormal \in ClipPlanes :
        LET r == clipToPlane(Vec4(a), Vec4(b), planeNormal)
        IN  /\ clipIn' = [a |-> Vec4(a), b |-> Vec4(b), plane |-> planeNormal]
            /\ clipA' = r.a
            /\ clipB' = r.b
            /\ lineIsVisible' = r.visible
            /\ canvasLines' = <<>>
            /\ frameLog' = [NoFrame EXCEPT !.kind = "clipToPlane"]
            /\ UNCHANGED <<viewport2D, heap, state, drag, sliderDragLabel, press, grab>>
            /\ UNCHANGED inputVars

\* One call of drawLine3D on two world positions.
DrawLineCall ==
    \E a \in WorldPoints3D, b \in WorldPoints3D, eyeZ \in EyeDistances :
        LET r == drawLine3D(clipFromWorld3D(eyeZ), canvasSize, a, b)
        IN  /\ clipIn' = r.in
            /\ clipA' = r.clip.a
            /\ clipB' = r.clip.b
            /\ lineIsVisible' = r.clip.visible
            /\ canvasLines' = r.lines
            /\ frameLog' = [NoFrame EXCEPT !.kind = "drawLine3D"]
            /\ UNCHANGED <<viewport2D, heap, state, drag, sliderDragLabel, press, grab>>
            /\ UNCHANGED inputVars

NextClip == ClipCall \/ DrawLineCall

SpecClip == InitClipSpec /\ [][NextClip]_vars

\* C10: when both endpoints have a negative dot product with the plane,
\* clipToPlane returns false and leaves both endpoints as they were, and
\* drawLine3D makes no canvas.drawLine call for the segment.
C10_BothBehindNotDrawn ==
    (/\ frameLog.kind \in {"clipToPlane", "drawLine3D"}
     /\ Dot4(clipIn.a.n, clipIn.plane) < 0
     /\ Dot4(clipIn.b.n, clipIn.plane) < 0)
    => /\ lineIsVisible = FALSE
       /\ clipA = clipIn.a
       /\ clipB = clipIn.b
       /\ canvasLines = <<>>

\* drawLine3D on two different points behind the near plane.
C10_Witness ==
    /\ frameLog.kind = "drawLine3D"
    /\ Dot4(clipIn.a.n, clipIn.plane) < 0
    /\ Dot4(clipIn.b.n, clipIn.plane) < 0
    /\ clipIn.a # clipIn.b
    /\ Dot4(clipIn.a.n, clipIn.plane) # Dot4(clipIn.b.n, clipIn.plane)
    /\ lineIsVisible = FALSE
    /\ canvasLines = <<>>

\* P = A + (tn / td) * (B - A), component by component, for vec4 values.
OnLineAt(P, A, B, tn, td) ==
    \A i \in 1..4 :
        P.n[i] * A.d * B.d * td
            = P.d * (A.n[i] * B.d * td + tn * (B.n[i] * A.d - A.n[i] * B.d))

\* C11: when at least one endpoint has a non-negative dot product with the
\* plane, clipToPlane returns true, leaves an endpoint with a non-negative dot
\* as it was, and replaces an endpoint with a negative dot by
\* lerp(A, B, dotA / (dotA - dotB)), a point of the plane; afterwards neither
\* endpoint is behind the plane.
C11_ClippedToPlane ==
    LET A == clipIn.a
        B == clipIn.b
        dotA == Dot4(A.n, clipIn.plane) * B.d
        dotB == Dot4(B.n, clipIn.plane) * A.d
    IN  (/\ frameLog.kind \in {"clipToPlane", "drawLine3D"}
         /\ (dotA >= 0 \/ dotB >= 0))
        => /\ lineIsVisible = TRUE
           /\ dotA >= 0 => clipA = A
           /\ dotB >= 0 => clipB = B
           /\ dotA < 0 => /\ OnLineAt(clipA, A, B, dotA, dotA - dotB)
                          /\ Dot4(clipA.n, clipIn.plane) = 0
           /\ dotB < 0 => /\ OnLineAt(clipB, A, B, dotA, dotA - dotB)
                          /\ Dot4(clipB.n, clipIn.plane) = 0
           /\ clipA.d > 0 /\ Dot4(clipA.n, clipIn.plane) >= 0
           /\ clipB.d > 0 /\ Dot4(clipB.n, clipIn.plane) >= 0

\* A = (0,0,1,1), B = (0,0,-2,1), plane (0,0,1,1): A is kept and B becomes
\* lerp(A, B, 2/3) = (0,0,-1,1).
C11_Witness ==
    /\ frameLog.kind = "clipToPlane"
    /\ clipIn = [a |-> Vec4(<<0, 0, 1, 1>>), b |-> Vec4(<<0, 0, -2, 1>>),
                 plane |-> <<0, 0, 1, 1>>]
    /\ lineIsVisible = TRUE
    /\ clipA = Vec4(<<0, 0, 1, 1>>)
    /\ clipB = Vec4(<<0, 0, -1, 1>>)

\* C18: when the two endpoints have equal dot products with the plane,
\* clipToPlane leaves both as they were; it returns false if the common value
\* is negative and true otherwise.
C18_EqualDotsUntouched ==
    (/\ frameLog.kind \in {"clipToPlane", "drawLine3D"}
     /\ Dot4(clipIn.a.n, clipIn.plane) * clipIn.b.d
            = Dot4(clipIn.b.n, clipIn.plane) * clipIn.a.d)
    => /\ clipA = clipIn.a
       /\ clipB = clipIn.b
       /\ lineIsVisible = (Dot4(clipIn.a.n, clipIn.plane) >= 0)

\* Two different points of the plane x = 0 (both dots 0): drawn as they are.
C18_Witness ==
    /\ frameLog.kind = "clipToPlane"
    /\ clipIn.plane = <<1, 0, 0, 0>>
    /\ clipIn.a = Vec4(<<0, 0, 1, 1>>)
    /\ clipIn.b = Vec4(<<0, 0, -3, 1>>)
    /\ lineIsVisible = TRUE
    /\ clipA = clipIn.a /\ clipB = clipIn.b

-----------------------------------------------------------------------------
(* The 2D transforms on rationals.  The transforms of the frame model above *)
(* work in whole pixels and whole world units, which is exact on its sample *)
(* pixels and canvas sizes; here a number is [n |-> N, d |-> D] with D > 0, *)
(* standing for N / D in lowest terms, so that any canvas size and any      *)
(* point can be converted without rounding.                                 *)


\* transformCanvasToWorld2D: x = ((v[0] - viewport2D[2]) / viewport2D[0]) * 2 - 1,
\* y = -(((v[1] - viewport2D[3]) / viewport2D[1]) * 2 - 1).
transformCanvasToWorld2DQ_NoOffset(vp, v) ==
    <<RSub(RMul(RDiv(v[1], vp[1]), RInt(2)), RInt(1)),
      RNeg(RSub(RMul(RDiv(v[2], vp[2]), RInt(2)), RInt(1)))>>
transformCanvasToWorld2DQ(vp, v) ==
    <<RSub(RMul(RDiv(RSub(v[1], vp[3]), vp[1]), RInt(2)), RInt(1)),
      RNeg(RSub(RMul(RDiv(RSub(v[2], vp[4]), vp[2]), RInt(2)), RInt(1)))>>

\* Canvas sizes: square, wider than high, higher than wide (odd differences
\* too), and a one-pixel canvas.
CanvasSizes == {<<200, 200>>, <<300, 200>>, <<200, 301>>, <<7, 4>>, <<1, 1>>}
\* Coordinates of world points in [-1, 1].
WorldCoords == {Rat(-1, 1), Rat(-1, 2), Rat(0, 1), Rat(1, 3), Rat(1, 1)}
\* Coordinates of canvas pixels.
PixelCoords == {0, 1, 37, 150, 300}

InitTransform ==
    /\ \E size \in CanvasSizes : canvasSize = size
    /\ InitViz
    /\ InitClip

\* A resize followed by the beginFrame2D of the next frame.
BeginFrame2DCall ==
    \E size \in CanvasSizes :
        /\ canvasSize' = size
        /\ viewport2D' = beginFrame2DQ(size)
        /\ frameLog' = [kind |-> "beginFrame2D"]
        /\ UNCHANGED <<mouse, mouseLast, mouseDelta, mouseButton, mouseWheel, keysDown>>
        /\ UNCHANGED <<heap, state, drag, sliderDragLabel, press, grab>>
        /\ UNCHANGED clipVars

\* transformCanvasToWorld2D(transformWorld2DToCanvas(v)) for a world point v.
WorldRoundTrip ==
    \E x \in WorldCoords, y \in WorldCoords :
        /\ frameLog.kind # "none"
        /\ frameLog' = [kind |-> "worldRoundTrip", world |-> <<x, y>>,
                        canvas |-> transformWorld2DToCanvasQ(viewport2D, <<x, y>>),
                        back |-> transformCanvasToWorld2DQ(viewport2D,
                                     transformWorld2DToCanvasQ(viewport2D, <<x, y>>))]
        /\ UNCHANGED <<viewport2D, heap, state, drag, sliderDragLabel, press, grab>>
        /\ UNCHANGED inputVars
        /\ UNCHANGED clipVars

\* transformWorld2DToCanvas(transformCanvasToWorld2D(p)) for a canvas pixel p.
CanvasRoundTrip ==
    \E x \in PixelCoords, y \in PixelCoords :
        /\ frameLog.kind # "none"
        /\ x <= canvasSize[1] /\ y <= canvasSize[2]
        /\ frameLog' = [kind |-> "canvasRoundTrip", canvas |-> <<RInt(x), RInt(y)>>,
                        world |-> transformCanvasToWorld2DQ(viewport2D, <<RInt(x), RInt(y)>>),
                        back |-> transformWorld2DToCanvasQ(viewport2D,
                                     transformCanvasToWorld2DQ(viewport2D,
                                                               <<RInt(x), RInt(y)>>))]
        /\ UNCHANGED <<viewport2D, heap, state, drag, sliderDragLabel, press, grab>>
        /\ UNCHANGED inputVars
        /\ UNCHANGED clipVars

\* transformClipToCanvas on the clip position (x, y, 0, 1), next to
\* transformWorld2DToCanvas on the world point (x, y).
ClipToCanvasCall ==
    \E x \in WorldCoords, y \in WorldCoords :
        LET clipSpace == Reduce4(<<x.n * y.d, y.n * x.d, 0, x.d * y.d>>, x.d * y.d)
            c == transformClipToCanvas(canvasSize, clipSpace)
        IN  /\ frameLog.kind # "none"
            /\ frameLog' = [kind |-> "clipToCanvas", world |-> <<x, y>>,
                            canvas2D |-> transformWorld2DToCanvasQ(viewport2D, <<x, y>>),
                            canvas3D |-> <<Rat(c.n[1], c.d), Rat(c.n[2], c.d)>>]
            /\ UNCHANGED <<viewport2D, heap, state, drag, sliderDragLabel, press, grab>>
            /\ UNCHANGED inputVars
            /\ UNCHANGED clipVars

NextTransform == BeginFrame2DCall \/ WorldRoundTrip \/ CanvasRoundTrip \/ ClipToCanvasCall

SpecTransform == InitTransform /\ [][NextTransform]_vars

\* C12: after beginFrame2D, on every canvas size, converting a world point of
\* [-1, 1] x [-1, 1] to the canvas and back gives the point, and converting a
\* canvas pixel to the world and back gives the pixel.
C12_RoundTrip ==
    /\ frameLog.kind = "worldRoundTrip" => frameLog.back = frameLog.world
    /\ frameLog.kind = "canvasRoundTrip" => frameLog.back = frameLog.canvas

\* World (1/3, -1/2) on the 200 x 301 canvas is the pixel (400/3, 401/2) and
\* comes back.
C12_Witness ==
    /\ frameLog.kind = "worldRoundTrip"
    /\ canvasSize = <<200, 301>>
    /\ frameLog.world = <<Rat(1, 3), Rat(-1, 2)>>
    /\ frameLog.canvas = <<Rat(400, 3), Rat(401, 2)>>
    /\ frameLog.back = frameLog.world

\* C16: for a clip position (x, y, z, 1) with x and y in [-1, 1],
\* transformClipToCanvas gives the canvas x and y that transformWorld2DToCanvas
\* gives for the world point (x, y), on every canvas size.
C16_ClipToCanvasAs2D ==
    frameLog.kind = "clipToCanvas" => frameLog.canvas3D = frameLog.canvas2D

-----------------------------------------------------------------------------
(* The resize specification: window resizes between square, wide and tall   *)
(* canvases, pointer events and frames, 2D and 3D.                          *)

\* On the 160 x 100 canvas the pixel (80, 80) is world (0, -0.6), on the
\* 100 x 160 canvas world (0.6, 0): the directions from the origin stay
\* multiples of 45 degrees, which keeps the set of vectors that drags can
\* produce finite, and the viewport offsets are whole pixels.
ResizeSizes == {<<200, 200>>, <<160, 100>>, <<100, 160>>}
ResizeDemos == {"DotProduct", "CameraFrustum"}

InitResize ==
    /\ canvasSize = SampleCanvas
    /\ InitClip
    /\ \E stored \in ResizeDemos :
       LET s0 == loadState([stateDefault EXCEPT !.demo = stored], <<>>, {})
       IN  /\ mouse = <<0, 0>>
           /\ mouseLast = <<0, 0>>
           /\ mouseDelta = <<0, 0>>
           /\ mouseButton = 0
           /\ mouseWheel = 0
           /\ keysDown = <<>>
           /\ viewport2D = <<0, 0, 0, 0>>
           /\ heap = s0.heap
           /\ state = s0.state
           /\ drag = NULL
           /\ sliderDragLabel = NULL
           /\ frameLog = NoFrame
           /\ press = "none"
           /\ grab = NoGrab

WindowResize == \E size \in ResizeSizes : size # canvasSize /\ onResize(size)

NextResize == PointerEvent \/ WindowResize \/ Frame

SpecResize == InitResize /\ [][NextResize]_vars

\* C13: in every frame, 2D or 3D, the viewport the transforms of the frame
\* read is the centred square of the canvas as it is in that frame: both
\* sides min(width, height), offsets (width - side) / 2 and
\* (height - side) / 2; the world position of the pointer in a 2D frame is the
\* pointer's pixel converted through that square.
C13_ViewportCentredSquare ==
    LET side == IF canvasSize[1] < canvasSize[2] THEN canvasSize[1] ELSE canvasSize[2]
    IN  frameLog.kind \in {"2D", "3D"} =>
           /\ viewport2D[1] = side
           /\ viewport2D[2] = side
           /\ 2 * viewport2D[3] = canvasSize[1] - side
           /\ 2 * viewport2D[4] = canvasSize[2] - side
           /\ frameLog.kind = "2D" =>
                 /\ (frameLog.mouseWorld[1] + Unit) * side
                        = (2 * mouse[1] - (canvasSize[1] - side)) * Unit
                 /\ (Unit - frameLog.mouseWorld[2]) * side
                        = (2 * mouse[2] - (canvasSize[2] - side)) * Unit

\* A session grabbed on the 200 x 200 canvas at world (-0.2, 0.2) is updated
\* by a frame on the 100 x 160 canvas, where the same pixel is world (0.6, 0).
C13_Witness ==
    /\ frameLog.kind = "2D"
    /\ canvasSize = <<100, 160>>
    /\ viewport2D = <<100, 100, 0, 30>>
    /\ frameLog.before # NULL
    /\ frameLog.before.kind = "NormalDrag"
    /\ frameLog.before.dragStart = <<-20, 20>>
    /\ frameLog.mouseWorld = <<60, 0>>

-----------------------------------------------------------------------------
(* The camera specification: a 3D demo and a camera distance found in       *)
(* localStorage at construction, then wheel, key and pointer events and     *)
(* frames.                                                                  *)

\* How many wheel events a behaviour of the camera specification holds.
MaxCameraWheels == 3

\* cameraDistance3D of the stored state: the default, the limit, and values
\* that no frame of this program leaves (loadState assigns what it parses).
StoredCameraDistances == {-100, -10, -6, 0}

InitCamera ==
    /\ canvasSize = SampleCanvas
    /\ InitClip
    /\ \E dist \in StoredCameraDistances :
       LET s0 == loadState([stateDefault EXCEPT !.demo = "CameraFrustum",
                                                !.cameraDistance3D = dist], <<>>, {})
       IN  /\ mouse = <<0, 0>>
           /\ mouseLast = <<0, 0>>
           /\ mouseDelta = <<0, 0>>
           /\ mouseButton = 0
           /\ mouseWheel = 0
           /\ keysDown = <<>>
           /\ viewport2D = <<0, 0, 0, 0>>
           /\ heap = s0.heap
           /\ state = s0.state
           /\ drag = NULL
           /\ sliderDragLabel = NULL
           /\ frameLog = NoFrame
           /\ press = "none"
           /\ grab = NoGrab

CameraWheel ==
    \E deltaY \in WheelDeltas :
        /\ grab.wheels < MaxCameraWheels
        /\ grab' = [grab EXCEPT !.wheels = @ + 1]
        /\ updateMouseWheel(deltaY)

NextCamera == CameraWheel \/ KeyDown \/ KeyUp \/ PointerEvent \/ Frame

SpecCamera == InitCamera /\ [][NextCamera]_vars

\* C14: the camera distance that beginFrame3D reads in a 3D frame is <= -10.
C14_CameraDistanceClamped ==
    frameLog.kind = "3D" => frameLog.camUsed <= -10

-----------------------------------------------------------------------------
(* The slider specification: the CameraFrustum demo on a 400 x 400 canvas,  *)
(* pointer events on and off the slider handles, and frames.                 *)

\* How many pointer events a behaviour of the slider specification holds
\* (the camera orbit accumulates without limit).
MaxPointerEvents == 4

\* The tracks start at x = 200, at y = 340, 356, 372 and 388; the handles of
\* the default state are at x = 278.8, 315.7, 229.8 and 200.  The pixels:
\* off every handle; within 24 of the fourth handle only; within 24 of the
\* first and of the second handle; on the first track, off every default
\* handle.
SliderPixels == {<<100, 100>>, <<200, 395>>, <<297, 348>>, <<350, 340>>}

InitSlider ==
    /\ canvasSize = <<400, 400>>
    /\ InitClip
    /\ LET s0 == loadState([stateDefault EXCEPT !.demo = "CameraFrustum"], <<>>, {})
       IN  /\ mouse = <<0, 0>>
           /\ mouseLast = <<0, 0>>
           /\ mouseDelta = <<0, 0>>
           /\ mouseButton = 0
           /\ mouseWheel = 0
           /\ keysDown = <<>>
           /\ viewport2D = <<0, 0, 0, 0>>
           /\ heap = s0.heap
           /\ state = s0.state
           /\ drag = NULL
           /\ sliderDragLabel = NULL
           /\ frameLog = NoFrame
           /\ press = "none"
           /\ grab = NoGrab

SliderPointer ==
    \E p \in SliderPixels, b \in InputButtons :
        /\ grab.updates < MaxPointerEvents
        /\ updateMouseState(p, b)
        /\ grab' = [grab EXCEPT !.updates = @ + 1]

NextSlider == SliderPointer \/ Frame

SpecSlider == InitSlider /\ [][NextSlider]_vars

\* C21: a slider label is stored only over null, by the one slider the frame
\* grabbed; the label is cleared only by a 3D frame that sampled no button;
\* and a 3D frame that began with a slider dragged, or that grabbed one,
\* added no pointer movement to the camera latitude and longitude.
C21_SliderDragExcludesOrbit ==
    [][/\ (sliderDragLabel' # sliderDragLabel /\ sliderDragLabel' # NULL) =>
            /\ sliderDragLabel = NULL
            /\ frameLog'.kind = "3D"
            /\ frameLog'.sliderGrabs = <<sliderDragLabel'.label>>
       /\ (sliderDragLabel # NULL /\ sliderDragLabel' = NULL) =>
            /\ frameLog'.kind = "3D"
            /\ frameLog'.buttons = 0
       /\ (/\ frameLog'.kind = "3D"
           /\ frameLog'.sliderBefore # NULL \/ frameLog'.sliderGrabs # <<>>) =>
            frameLog'.orbit = <<0, 0>>
      ]_vars

-----------------------------------------------------------------------------
(* The light ray specification: a 2D demo and a light ray count found in    *)
(* localStorage at construction, then wheel and key events and frames.      *)

\* lightRayNum of the stored state: the default, the limit and its
\* neighbours, and values that no frame of this program leaves (loadState
\* assigns what it parses).
StoredLightRayNums == {-3, 0, 1, 2, 3, 10}

InitRays ==
    /\ canvasSize = SampleCanvas
    /\ InitClip
    /\ \E num \in StoredLightRayNums, stored \in {"DotProduct", "PointLight"} :
       LET s0 == loadState([stateDefault EXCEPT !.demo = stored,
                                                !.lightRayNum = num], <<>>, {})
       IN  /\ mouse = <<0, 0>>
           /\ mouseLast = <<0, 0>>
           /\ mouseDelta = <<0, 0>>
           /\ mouseButton = 0
           /\ mouseWheel = 0
           /\ keysDown = <<>>
           /\ viewport2D = <<0, 0, 0, 0>>
           /\ heap = s0.heap
           /\ state = s0.state
           /\ drag = NULL
           /\ sliderDragLabel = NULL
           /\ frameLog = NoFrame
           /\ press = "none"
           /\ grab = NoGrab

NextRays == CameraWheel \/ KeyDown \/ KeyUp \/ Frame

SpecRays == InitRays /\ [][NextRays]_vars

\* C22 as stated: after every 2D frame lightRayNum is >= 2, the frame changed
\* it by at most 1, by -sign of the wheel delta it sampled or not at all, and
\* every frame leaves mouseWheel at 0.
C22_RayCountStepsByOne ==
    [][frameLog'.kind \in {"2D", "3D"} =>
         /\ mouseWheel' = 0
         /\ frameLog'.wheel = mouseWheel
         /\ frameLog'.kind = "2D" =>
              /\ state'.lightRayNum >= 2
              /\ state'.lightRayNum - state.lightRayNum \in {0, -Sign(mouseWheel)}
      ]_vars

\* C22 amended: after every 2D frame lightRayNum is >= 2; update2D finds the
\* stored count, or 10 when KeyP reset the state in this frame; finding it
\* >= 2 it changes it by -sign of the wheel delta sampled, or not at all when
\* that would leave 1; finding it below 2 it leaves 2; a 3D frame changes it
\* only by a reset; every frame samples mouseWheel and leaves it at 0.
C22_RayCountClamped ==
    [][frameLog'.kind \in {"2D", "3D"} =>
         /\ mouseWheel' = 0
         /\ frameLog'.wheel = mouseWheel
         /\ frameLog'.kind = "3D" =>
              state'.lightRayNum = (IF frameLog'.reset THEN 10 ELSE state.lightRayNum)
         /\ frameLog'.kind = "2D" =>
              /\ state'.lightRayNum >= 2
              /\ frameLog'.raysBefore = (IF frameLog'.reset THEN 10 ELSE state.lightRayNum)
              /\ frameLog'.raysBefore >= 2 =>
                   \/ state'.lightRayNum = frameLog'.raysBefore - Sign(mouseWheel)
                   \/ /\ state'.lightRayNum = frameLog'.raysBefore
                      /\ frameLog'.raysBefore = 2 /\ mouseWheel > 0
              /\ frameLog'.raysBefore < 2 => state'.lightRayNum = 2
      ]_vars

\* A 2D frame that sampled a wheel delta > 0 with the count at 2 and left it
\* at 2; the wheel is back at 0.
C22_Witness ==
    /\ frameLog.kind = "2D"
    /\ frameLog.wheel > 0
    /\ frameLog.raysBefore = 2
    /\ state.lightRayNum = 2
    /\ mouseWheel = 0
    /\ grab.wheels >= 2

-----------------------------------------------------------------------------
(* lineRayIntersect on points with coordinates in units of 1 / Grid; the    *)
(* result is a rational (the sentinel is -1 / 1).                           *)

\* Grid units per 1.0: cross products are in units of 1 / (Grid * Grid), so
\* that 0 < |denom| < 0.01 happens for |cross| of 1, 2 and 3.
Grid == 20

Tolerance == Rat(1, 100)
Sentinel == RInt(-1)

lineRayIntersect_SegmentParameter(a0, a1, b0, b1) ==
    LET a == Sub(a1, a0)
        b == Sub(b1, b0)
        c == Sub(b0, a0)
        denom == Cross2(a, b)
    IN  IF 100 * Abs(denom) < Grid * Grid THEN Sentinel
        ELSE IF \/ RLess(Rat(Cross2(c, a), denom), RInt(0))
                \/ RLess(Rat(Cross2(c, b), denom), RNeg(Tolerance))
                \/ RLess(RAdd(RInt(1), Tolerance), Rat(Cross2(c, b), denom))
             THEN Sentinel
             ELSE Rat(Cross2(c, b), denom)

\* lineRayIntersect(a0, a1, b0, b1): a = a1 - a0, b = b1 - b0, c = b0 - a0,
\* denom = cross(a, b); -1 if |denom| < 0.01; at = cross(c, a) / denom,
\* bt = cross(c, b) / denom; -1 if at < 0 or bt < -0.01 or bt > 1.01; else at.
lineRayIntersect(a0, a1, b0, b1) ==
    LET a == Sub(a1, a0)
        b == Sub(b1, b0)
        c == Sub(b0, a0)
        denom == Cross2(a, b)
    IN  IF 100 * Abs(denom) < Grid * Grid THEN Sentinel
        ELSE IF \/ RLess(Rat(Cross2(c, a), denom), RInt(0))
                \/ RLess(Rat(Cross2(c, b), denom), RNeg(Tolerance))
                \/ RLess(RAdd(RInt(1), Tolerance), Rat(Cross2(c, b), denom))
             THEN Sentinel
             ELSE Rat(Cross2(c, a), denom)

SegmentPoints == {<<0, 0>>, <<40, 0>>, <<3, 1>>, <<-8, 8>>, <<8, -8>>, <<0, 20>>}
RayOrigins == {<<20, 20>>, <<41, 5>>, <<-4, -2>>, <<0, 10>>}
RayTargets == {<<20, 0>>, <<20, 40>>, <<37, -20>>, <<40, -20>>, <<0, -1>>, <<40, 10>>}

InitIntersect == canvasSize = SampleCanvas /\ InitViz /\ InitClip

\* One call of lineRayIntersect.
IntersectCall ==
    \E a0 \in SegmentPoints, a1 \in SegmentPoints, b0 \in RayOrigins, b1 \in RayTargets :
        /\ frameLog' = [kind |-> "lineRayIntersect", a0 |-> a0, a1 |-> a1,
                        b0 |-> b0, b1 |-> b1, t |-> lineRayIntersect(a0, a1, b0, b1)]
        /\ UNCHANGED <<viewport2D, heap, state, drag, sliderDragLabel, press, grab>>
        /\ UNCHANGED inputVars
        /\ UNCHANGED clipVars

NextIntersect == IntersectCall

SpecIntersect == InitIntersect /\ [][NextIntersect]_vars

\* C17: lineRayIntersect returns -1 or a t >= 0; it returns -1 whenever
\* |cross(a1 - a0, b1 - b0)| < 0.01; when it returns t >= 0 the point
\* b0 + t (b1 - b0) is on the line through a0 and a1, at a parameter s along
\* a0 -> a1 with -0.01 <= s <= 1.01.
C17_SentinelOrRayParameter ==
    frameLog.kind = "lineRayIntersect" =>
        LET a == Sub(frameLog.a1, frameLog.a0)
            b == Sub(frameLog.b1, frameLog.b0)
            t == frameLog.t
            dx == RSub(RAdd(RInt(frameLog.b0[1]), RMul(t, RInt(b[1]))), RInt(frameLog.a0[1]))
            dy == RSub(RAdd(RInt(frameLog.b0[2]), RMul(t, RInt(b[2]))), RInt(frameLog.a0[2]))
            s == RDiv(RAdd(RMul(dx, RInt(a[1])), RMul(dy, RInt(a[2]))), RInt(SqLen(a)))
        IN  /\ t = RInt(-1) \/ t.n >= 0
            /\ 100 * Abs(Cross2(a, b)) < Grid * Grid => t = RInt(-1)
            /\ t # RInt(-1) =>
                  /\ RSub(RMul(dx, RInt(a[2])), RMul(dy, RInt(a[1]))) = RInt(0)
                  /\ ~RLess(s, Rat(-1, 100))
                  /\ ~RLess(Rat(101, 100), s)

\* The ray from (2.05, 0.25) towards (1.85, -1) meets the line of the segment
\* (0,0)-(2,0) at t = 1/5, at the segment parameter 1.005.
C17_Witness ==
    /\ frameLog.kind = "lineRayIntersect"
    /\ frameLog.a0 = <<0, 0>> /\ frameLog.a1 = <<40, 0>>
    /\ frameLog.b0 = <<41, 5>> /\ frameLog.b1 = <<37, -20>>
    /\ frameLog.t = Rat(1, 5)

====
